---- MODULE Spec2Model ----
(***************************************************************************)
(* urlroulette (src/src/index.ts): a Worker that stores submitted URLs in  *)
(* a key-value namespace in groups ("shards") of 1000 and serves a random  *)
(* one.  Strings are modelled as sequences of one-character strings so     *)
(* that key construction, prefix listing, number formatting and parsing    *)
(* are computed the way the code computes them.                            *)
(*                                                                         *)
(* Spec       two handler invocations in flight together, serving the      *)
(*            requests that reach the store; every store operation         *)
(*            succeeds                                                     *)
(* SpecGate   one handler serving requests of every kind, one after        *)
(*            another; store operations may reject                         *)
(* SpecSampler  rand, the estimate and the group selection as functions    *)
(***************************************************************************)
EXTENDS Integers, Sequences, FiniteSets, TLC

\* ------------------------------------------------------------------ bounds

\* requests served in one behaviour
MaxRequests == 2
\* clock advances (milliseconds) in one behaviour
MaxTicks == 1
\* first clock reading of a behaviour (Date.getTime(), scaled down)
ClockStart == 101
\* largest urlPrefix of the drawn counter states of SpecSampler
MaxSamplerPrefix == 2
\* most negative bound handed to rand in SpecSampler
MaxNegBound == 3

\* ------------------------------------------------------- program constants

\* the group size: `++urlCount === 1000`, `urlPrefix * 1000`, `/ 1000`
ShardCap == 1000
\* KV list() returns at most this many keys per call
ListCap == 1000

\* the handler invocations that can be in flight together; each serves one
\* request after another
Procs == {1, 2}

\* every invocation of fetch the model has room for; the third is used only
\* where three requests are in flight together
Handlers == {1, 2, 3}

\* null, as a value where strings are expected (no string has this character)
Null == <<"null">>
\* NaN, as a number: a value apart from every integer the model computes
\* with.  Each arithmetic definition below gives NaN on NaN, every comparison
\* with a number is false, `${NaN}` is "NaN" and JSON.stringify gives null.
NaN == -1000000

\* ------------------------------------------------------------------ strings

DigitChars == <<"0", "1", "2", "3", "4", "5", "6", "7", "8", "9">>

LowerChars == {"a", "b", "c", "d", "e", "f", "g", "h", "i", "j", "k", "l", "m",
               "n", "o", "p", "q", "r", "s", "t", "u", "v", "w", "x", "y", "z"}

IsDigit(c) == \E i \in 1..10 : DigitChars[i] = c

DigitVal(c) == (CHOOSE i \in 1..10 : DigitChars[i] = c) - 1

\* `${n}` for a non-negative integer n or NaN
RECURSIVE NumToStr(_)
NumToStr(n) ==
    IF n = NaN THEN <<"N", "a", "N">>
    ELSE IF n < 10 THEN <<DigitChars[n + 1]>>
    ELSE NumToStr(n \div 10) \o <<DigitChars[(n % 10) + 1]>>

\* the longest run of digits s starts with
RECURSIVE LeadingDigits(_)
LeadingDigits(s) ==
    IF s = <<>> \/ ~IsDigit(Head(s)) THEN <<>>
    ELSE <<Head(s)>> \o LeadingDigits(Tail(s))

RECURSIVE DigitsValue(_, _)
DigitsValue(s, acc) ==
    IF s = <<>> THEN acc ELSE DigitsValue(Tail(s), acc * 10 + DigitVal(Head(s)))

\* s.startsWith(p)
StartsWith(s, p) == Len(p) <= Len(s) /\ SubSeq(s, 1, Len(p)) = p

HexChars == <<"0", "1", "2", "3", "4", "5", "6", "7", "8", "9",
              "a", "b", "c", "d", "e", "f", "A", "B", "C", "D", "E", "F">>

IsHex(c) == \E i \in 1..Len(HexChars) : HexChars[i] = c

HexVal(c) ==
    LET i == CHOOSE j \in 1..Len(HexChars) : HexChars[j] = c
    IN  IF i <= 16 THEN i - 1 ELSE i - 7

\* the longest run of hexadecimal digits s starts with
RECURSIVE LeadingHex(_)
LeadingHex(s) ==
    IF s = <<>> \/ ~IsHex(Head(s)) THEN <<>>
    ELSE <<Head(s)>> \o LeadingHex(Tail(s))

RECURSIVE HexValue(_, _)
HexValue(s, acc) ==
    IF s = <<>> THEN acc ELSE HexValue(Tail(s), acc * 16 + HexVal(Head(s)))

\* s without its leading blanks
RECURSIVE TrimLeft(_)
TrimLeft(s) == IF s # <<>> /\ Head(s) = " " THEN TrimLeft(Tail(s)) ELSE s

\* parseInt(s) with no radix, on strings over Alphabet (which has no sign
\* character): leading blanks are skipped, "0x" or "0X" selects base 16, the
\* longest run of digits is read and what follows it is ignored; NaN when
\* there is no digit
ParseInt(s) ==
    LET t == TrimLeft(s) IN
    IF StartsWith(t, <<"0", "x">>) \/ StartsWith(t, <<"0", "X">>)
    THEN LET h == LeadingHex(SubSeq(t, 3, Len(t)))
         IN  IF h = <<>> THEN NaN ELSE HexValue(h, 0)
    ELSE IF LeadingDigits(t) = <<>> THEN NaN
    ELSE DigitsValue(LeadingDigits(t), 0)

\* s.endsWith(p)
EndsWith(s, p) == Len(p) <= Len(s) /\ SubSeq(s, Len(s) - Len(p) + 1, Len(s)) = p

\* the characters of the model's strings, in UTF-8 byte order
Alphabet == <<" ", "%", ".", "/",
              "0", "1", "2", "3", "4", "5", "6", "7", "8", "9", ":",
              "A", "C", "F", "K", "N", "P",
              "a", "b", "c", "d", "e", "f", "g", "h", "i", "j", "k", "l", "m",
              "n", "o", "p", "q", "r", "s", "t", "u", "v", "w", "x", "y", "z">>

CharOrd(c) == CHOOSE i \in 1..Len(Alphabet) : Alphabet[i] = c

\* a < b in the lexicographic order of their bytes
RECURSIVE LexLess(_, _)
LexLess(a, b) ==
    IF b = <<>> THEN FALSE
    ELSE IF a = <<>> THEN TRUE
    ELSE IF Head(a) = Head(b) THEN LexLess(Tail(a), Tail(b))
    ELSE CharOrd(Head(a)) < CharOrd(Head(b))

\* string literals of the source
S_urlCount == <<"u", "r", "l", "C", "o", "u", "n", "t">>
S_urlPrefix == <<"u", "r", "l", "P", "r", "e", "f", "i", "x">>
S_urlDot == <<"u", "r", "l", ".">>
S_urlKeyDot == <<"u", "r", "l", "K", "e", "y", ".">>
S_http == <<"h", "t", "t", "p", ":", "/", "/">>
S_https == <<"h", "t", "t", "p", "s", ":", "/", "/">>
S_zero == <<"0">>
S_stats == <<"/", "s", "t", "a", "t", "s">>

\* ------------------------------------------------------------- URL helpers

\* ASCII codes of the characters of Alphabet, in its order
AlphabetCodes ==
    <<32, 37, 46, 47>> \o [i \in 1..10 |-> 47 + i]
        \o <<58, 65, 67, 70, 75, 78, 80>> \o [i \in 1..26 |-> 96 + i]

\* the code of each character of Alphabet
CodeOf == [c \in {Alphabet[i] : i \in 1..Len(Alphabet)} |-> AlphabetCodes[CharOrd(c)]]

Code(c) == CodeOf[c]

Codes(s) == [i \in 1..Len(s) |-> Code(s[i])]

\* ASCII lowercase, on codes
LowerCodes(d) == [i \in 1..Len(d) |-> IF d[i] \in 65..90 THEN d[i] + 32 ELSE d[i]]

IsAlphaCode(n) == n \in 65..90 \/ n \in 97..122
IsDigitCode(n) == n \in 48..57

\* the code points a scheme continues with: alphanumerics, "+", "-", "."
IsSchemeCode(n) == IsAlphaCode(n) \/ IsDigitCode(n) \/ n \in {43, 45, 46}

\* position of the first ":" of s, 0 when there is none
ColonAt(s) ==
    IF \E i \in 1..Len(s) : s[i] = ":"
    THEN CHOOSE i \in 1..Len(s) : s[i] = ":" /\ \A j \in 1..(i - 1) : s[j] # ":"
    ELSE 0

\* the special schemes that need a host
SpecialSchemes == {<<"h", "t", "t", "p">>, <<"h", "t", "t", "p", "s">>,
                   <<"f", "t", "p">>, <<"w", "s">>, <<"w", "s", "s">>}

FileScheme == <<"f", "i", "l", "e">>

RECURSIVE DropSlashes(_)
DropSlashes(s) ==
    IF s # <<>> /\ Head(s) = "/" THEN DropSlashes(Tail(s)) ELSE s

\* s without its leading and trailing blanks
RECURSIVE TrimRight(_)
TrimRight(s) ==
    IF s # <<>> /\ s[Len(s)] = " " THEN TrimRight(SubSeq(s, 1, Len(s) - 1)) ELSE s

Trim(s) == TrimRight(TrimLeft(s))

\* the part of s before the first character of stops
RECURSIVE Upto(_, _)
Upto(s, stops) ==
    IF s = <<>> \/ Head(s) \in stops THEN <<>>
    ELSE <<Head(s)>> \o Upto(Tail(s), stops)

\* the host of an authority: what precedes the port and the path
HostOf(s) == Upto(s, {":", "/"})

\* percent-decoding, into byte values: "%" and two hexadecimal digits give
\* one byte, every other character its own
RECURSIVE PercentDecode(_)
PercentDecode(s) ==
    IF s = <<>> THEN <<>>
    ELSE IF s[1] = "%" /\ Len(s) >= 3 /\ IsHex(s[2]) /\ IsHex(s[3])
    THEN <<16 * HexVal(s[2]) + HexVal(s[3])>> \o PercentDecode(SubSeq(s, 4, Len(s)))
    ELSE <<Code(s[1])>> \o PercentDecode(Tail(s))

\* forbidden domain code points: C0 controls, space, # % / : < > ? @ [ \ ] ^ |
\* and DEL
ForbiddenDomainCode(n) ==
    n <= 32 \/ n \in {35, 37, 47, 58, 60, 62, 63, 64, 91, 92, 93, 94, 124, 127}

\* d split at its dots (code 46)
RECURSIVE SplitDots(_)
SplitDots(d) ==
    IF \A i \in 1..Len(d) : d[i] # 46 THEN <<d>>
    ELSE LET i == CHOOSE j \in 1..Len(d) : d[j] = 46 /\ \A k \in 1..(j - 1) : d[k] # 46
         IN  <<SubSeq(d, 1, i - 1)>> \o SplitDots(SubSeq(d, i + 1, Len(d)))

\* the labels of a domain, one trailing empty label removed
DomainParts(d) ==
    LET parts == SplitDots(d) IN
    IF Len(parts) > 1 /\ parts[Len(parts)] = <<>>
    THEN SubSeq(parts, 1, Len(parts) - 1) ELSE parts

\* the value of a digit code in radix r, -1 when it is no digit of r
DigitOfCode(n, r) ==
    LET v == IF n \in 48..57 THEN n - 48
             ELSE IF n \in 97..102 THEN n - 87
             ELSE IF n \in 65..70 THEN n - 55
             ELSE 0 - 1
    IN  IF v < r THEN v ELSE 0 - 1

\* a number read in radix r, kept as hi * 65536 + lo with hi capped at 65536
RECURSIVE Accumulate(_, _, _, _)
Accumulate(digits, r, hi, lo) ==
    IF digits = <<>> THEN [ok |-> TRUE, hi |-> hi, lo |-> lo]
    ELSE LET t == lo * r + DigitOfCode(Head(digits), r)
             h == hi * r + (t \div 65536)
         IN  Accumulate(Tail(digits), r, IF h > 65536 THEN 65536 ELSE h, t % 65536)

NoNumber == [ok |-> FALSE, hi |-> 0, lo |-> 0]

\* the IPv4 number parser: "0x" selects base 16, a leading "0" base 8
Ipv4Number(part) ==
    IF part = <<>> THEN NoNumber
    ELSE LET hex == Len(part) >= 2 /\ part[1] = 48 /\ part[2] \in {120, 88}
             oct == ~hex /\ Len(part) >= 2 /\ part[1] = 48
             r == IF hex THEN 16 ELSE IF oct THEN 8 ELSE 10
             digits == IF hex THEN SubSeq(part, 3, Len(part))
                       ELSE IF oct THEN Tail(part) ELSE part
         IN  IF \E i \in 1..Len(digits) : DigitOfCode(digits[i], r) < 0
             THEN NoNumber
             ELSE Accumulate(digits, r, 0, 0)

\* the last label is made of digits or reads as an IPv4 number
EndsInNumber(d) ==
    LET parts == DomainParts(d)
        last == parts[Len(parts)]
    IN  \/ last # <<>> /\ \A i \in 1..Len(last) : IsDigitCode(last[i])
        \/ Ipv4Number(last).ok

\* the IPv4 parser returns an address: at most four parts, each a number,
\* all but the last at most 255, the last below 256^(5 - parts)
Ipv4Parses(d) ==
    LET parts == DomainParts(d)
        n == Len(parts)
        num == [i \in 1..n |-> Ipv4Number(parts[i])]
    IN  /\ n <= 4
        /\ \A i \in 1..n : num[i].ok
        /\ \A i \in 1..(n - 1) : num[i].hi = 0 /\ num[i].lo <= 255
        /\ IF n = 1 THEN num[n].hi < 65536
           ELSE IF n = 2 THEN num[n].hi < 256
           ELSE IF n = 3 THEN num[n].hi = 0
           ELSE num[n].hi = 0 /\ num[n].lo < 256

\* the bytes are well-formed UTF-8: an ASCII byte, or a lead byte with the
\* continuation bytes the UTF-8 decoder accepts after it
RECURSIVE ValidUtf8(_)
ValidUtf8(d) ==
    LET n == Len(d)
        Cont(i) == i <= n /\ d[i] \in 128..191
        Rest(k) == ValidUtf8(SubSeq(d, k + 1, n))
    IN  IF d = <<>> THEN TRUE
        ELSE IF d[1] < 128 THEN Rest(1)
        ELSE IF d[1] \in 194..223 THEN Cont(2) /\ Rest(2)
        ELSE IF d[1] = 224 THEN n >= 2 /\ d[2] \in 160..191 /\ Cont(3) /\ Rest(3)
        ELSE IF d[1] = 237 THEN n >= 2 /\ d[2] \in 128..159 /\ Cont(3) /\ Rest(3)
        ELSE IF d[1] \in 225..239 THEN Cont(2) /\ Cont(3) /\ Rest(3)
        ELSE IF d[1] = 240
        THEN n >= 2 /\ d[2] \in 144..191 /\ Cont(3) /\ Cont(4) /\ Rest(4)
        ELSE IF d[1] \in 241..243 THEN Cont(2) /\ Cont(3) /\ Cont(4) /\ Rest(4)
        ELSE IF d[1] = 244
        THEN n >= 2 /\ d[2] \in 128..143 /\ Cont(3) /\ Cont(4) /\ Rest(4)
        ELSE FALSE

\* some label starts with "xn--": a Punycode label
HasPunycodeLabel(d) ==
    LET parts == SplitDots(d) IN
    \E i \in 1..Len(parts) :
        Len(parts[i]) >= 4 /\ SubSeq(parts[i], 1, 4) = <<120, 110, 45, 45>>

\* The host parser on the host of a special scheme: the outcomes it can have,
\* TRUE for a host, FALSE for failure.  Ill-formed UTF-8 and forbidden code
\* points always fail.  An ASCII domain without Punycode labels is only
\* lowercased, and fails exactly when it ends in a number and is no IPv4
\* address.  Whether a domain with characters beyond ASCII or with a Punycode
\* label passes domain-to-ASCII is decided by the Unicode IDNA tables, which
\* this model does not hold: both outcomes are kept.
DomainOutcomes(host) ==
    LET d == LowerCodes(PercentDecode(host)) IN
    IF ~ValidUtf8(d) \/ \E i \in 1..Len(d) : ForbiddenDomainCode(d[i])
    THEN {FALSE}
    ELSE IF \E i \in 1..Len(d) : d[i] >= 128 THEN BOOLEAN
    ELSE IF EndsInNumber(d) THEN {Ipv4Parses(d)}
    ELSE IF HasPunycodeLabel(d) THEN BOOLEAN
    ELSE {TRUE}

\* a port: decimal digits, at most 65535
RECURSIVE PortValue(_, _)
PortValue(s, acc) ==
    IF s = <<>> THEN acc
    ELSE LET v == acc * 10 + DigitVal(Head(s))
         IN  PortValue(Tail(s), IF v > 65536 THEN 65536 ELSE v)

PortParses(s) == (\A i \in 1..Len(s) : IsDigit(s[i])) /\ PortValue(s, 0) <= 65535

\* host and port of an authority a (what follows the scheme's slashes): the
\* outcomes the parser can have on it
AuthorityOutcomes(a, special) ==
    LET host == HostOf(a)
        after == SubSeq(a, Len(host) + 1, Len(a))
        hasPort == after # <<>> /\ Head(after) = ":"
    IN  IF \/ (special \/ hasPort) /\ host = <<>>
           \/ ~special /\ \E i \in 1..Len(host) : host[i] = " "
           \/ hasPort /\ ~PortParses(Upto(Tail(after), {"/"}))
        THEN {FALSE}
        ELSE IF special THEN DomainOutcomes(host)
        ELSE {TRUE}

\* what follows "file:": two slashes introduce a host, which may be empty or
\* a drive letter
FileOutcomes(rest) ==
    IF ~StartsWith(rest, <<"/", "/">>) THEN {TRUE}
    ELSE LET buf == Upto(SubSeq(rest, 3, Len(rest)), {"/"}) IN
         IF buf = <<>> THEN {TRUE}
         ELSE IF Len(buf) = 2 /\ IsAlphaCode(Code(buf[1])) /\ buf[2] = ":"
         THEN {TRUE}
         ELSE DomainOutcomes(buf)

\* a parser that asks for a scheme only
UrlOutcomes_SchemeOnly(s) == {ColonAt(s) > 1}

\* The outcomes of `new URL(s)`, TRUE when it returns and FALSE when it
\* throws, for strings over Alphabet: leading and trailing blanks are
\* dropped; a scheme is required; http, https, ftp, ws and wss need a host
\* that parses as a domain or an IPv4 address, with an optional port; file
\* may have one; any other scheme has an opaque path, or after "//" an opaque
\* host.  The set has both values only where DomainOutcomes has.
UrlOutcomes(s) ==
    LET t == Trim(s)
        c == ColonAt(t)
    IN  IF ~(/\ c > 1
             /\ IsAlphaCode(Code(t[1]))
             /\ \A i \in 1..(c - 1) : IsSchemeCode(Code(t[i])))
        THEN {FALSE}
        ELSE LET scheme == LowerCodes(Codes(SubSeq(t, 1, c - 1)))
                 rest == SubSeq(t, c + 1, Len(t))
             IN  IF scheme = Codes(FileScheme) THEN FileOutcomes(rest)
                 ELSE IF scheme \in {Codes(x) : x \in SpecialSchemes}
                 THEN AuthorityOutcomes(DropSlashes(rest), TRUE)
                 ELSE IF StartsWith(rest, <<"/", "/">>)
                 THEN AuthorityOutcomes(SubSeq(rest, 3, Len(rest)), FALSE)
                 ELSE {TRUE}

\* encodeURIComponent of one character of Alphabet
EncodeChar(c) ==
    IF c = " " THEN <<"%", "2", "0">>
    ELSE IF c = "%" THEN <<"%", "2", "5">>
    ELSE IF c = "/" THEN <<"%", "2", "F">>
    ELSE IF c = ":" THEN <<"%", "3", "A">>
    ELSE <<c>>

RECURSIVE EncodeURIComponent(_)
EncodeURIComponent(s) ==
    IF s = <<>> THEN <<>> ELSE EncodeChar(Head(s)) \o EncodeURIComponent(Tail(s))

\* a key that leaves the group out: every entry lands in group 0
UrlKey_NoShard(urlPrefix, now) ==
    S_urlDot \o NumToStr(0) \o <<".">> \o NumToStr(now)

\* `url.${urlPrefix}.${new Date().getTime()}`
UrlKey(urlPrefix, now) ==
    S_urlDot \o NumToStr(urlPrefix) \o <<".">> \o NumToStr(now)

\* `urlKey.${encodeURIComponent(url)}`
ReverseKey(url) == S_urlKeyDot \o EncodeURIComponent(url)

\* `url.${targetUrlPrefix}`
ListPrefix(targetUrlPrefix) == S_urlDot \o NumToStr(targetUrlPrefix)

\* shard index of a URL entry key: the digits between "url." and the next "."
ShardOfKey(k) == ParseInt(SubSeq(k, Len(S_urlDot) + 1, Len(k)))

IsUrlEntryKey(k) == StartsWith(k, S_urlDot)

\* ------------------------------------------------------------ the KV store
\* The namespace is a function from keys to values.  URL entries written
\* before the behaviour starts are kept as counts per shard (old): their
\* keys are `url.<shard>.<t>` with t < ClockStart, their values OldUrl.

OldUrl == S_http \o <<"o">>

\* a key of the old entries of shard s (they differ in the timestamp only)
OldKey(s) == UrlKey(s, ClockStart - 1)

\* env.KV.get(key)
KVGet(store, key) == IF key \in DOMAIN store THEN store[key] ELSE Null

\* env.KV.put(key, value)
KVPut(store, key, value) ==
    [k \in DOMAIN store \cup {key} |-> IF k = key THEN value ELSE store[k]]

\* the keys that start with prefix, as runs: n old entries of one shard, or
\* one written key
MatchingRuns(store, oldc, prefix) ==
    {[key |-> OldKey(s), n |-> oldc[s], old |-> TRUE] :
        s \in {t \in DOMAIN oldc : oldc[t] > 0 /\ StartsWith(OldKey(t), prefix)}}
    \cup
    {[key |-> k, n |-> 1, old |-> FALSE] :
        k \in {j \in DOMAIN store : StartsWith(j, prefix)}}

\* runs in the lexicographic order of their keys
RECURSIVE SortRuns(_)
SortRuns(S) ==
    IF S = {} THEN <<>>
    ELSE LET m == CHOOSE r \in S : \A q \in S \ {r} : LexLess(r.key, q.key)
         IN <<m>> \o SortRuns(S \ {m})

\* the first cap keys of a sequence of runs
RECURSIVE TakeRuns(_, _)
TakeRuns(runs, cap) ==
    IF runs = <<>> \/ cap = 0 THEN <<>>
    ELSE IF Head(runs).n >= cap THEN <<[Head(runs) EXCEPT !.n = cap]>>
    ELSE <<Head(runs)>> \o TakeRuns(Tail(runs), cap - Head(runs).n)

\* env.KV.list({ prefix }): at most ListCap keys, in lexicographic order
KVList(store, oldc, prefix) ==
    TakeRuns(SortRuns(MatchingRuns(store, oldc, prefix)), ListCap)

\* results.keys.length
RECURSIVE KeysLength(_)
KeysLength(runs) ==
    IF runs = <<>> THEN 0 ELSE Head(runs).n + KeysLength(Tail(runs))

\* undefined, where an element of results.keys is expected
NoKey == [key |-> <<>>, n |-> 0, old |-> FALSE]

\* results.keys[i]: the run that holds position i, undefined outside the array
RECURSIVE KeyAt(_, _)
KeyAt(runs, i) ==
    IF runs = <<>> \/ i = NaN \/ i < 0 THEN NoKey
    ELSE IF i < Head(runs).n THEN Head(runs)
    ELSE KeyAt(Tail(runs), i - Head(runs).n)

\* env.KV.get(results.keys[i].name)
KVGetEntry(store, run) == IF run.old THEN OldUrl ELSE KVGet(store, run.key)

\* `x || "0"`: null and the empty string are falsy
OrZero(x) == IF x = Null \/ x = <<>> THEN S_zero ELSE x

\* getUrlCount / getUrlPrefix
GetUrlCount(store) == ParseInt(OrZero(KVGet(store, S_urlCount)))

GetUrlPrefix(store) == ParseInt(OrZero(KVGet(store, S_urlPrefix)))

\* ----------------------------------------------------------------- sampler

\* the values Math.floor(Math.random() * max) can take
Rand(max) ==
    IF max = NaN THEN {NaN}
    ELSE IF max > 0 THEN 0..(max - 1)
    ELSE IF max = 0 THEN {0}
    ELSE max..0

\* what a call rand(max) can end with: the function is one expression with no
\* guard and no throw, so every call returns
RandOutcomes(max) == {[threw |-> FALSE, value |-> v] : v \in Rand(max)}

\* (urlPrefix * 1000) + urlCount
EstimatedTotalUrlCount(urlCount, urlPrefix) ==
    IF urlCount = NaN \/ urlPrefix = NaN THEN NaN
    ELSE (urlPrefix * ShardCap) + urlCount

\* rounding up instead of down
TargetUrlPrefix_Ceil(estimatedTargetUrl) ==
    IF estimatedTargetUrl = NaN THEN NaN
    ELSE (estimatedTargetUrl + ShardCap - 1) \div ShardCap

\* Math.floor(estimatedTargetUrl / 1000)
TargetUrlPrefix(estimatedTargetUrl) ==
    IF estimatedTargetUrl = NaN THEN NaN ELSE estimatedTargetUrl \div ShardCap

\* ---------------------------------------------------------------- requests

UrlA == S_http \o <<"a">>
UrlB == S_https \o <<"b">>
BodyFtp == <<"f", "t", "p", ":", "/", "/", "e", "x", "a", "m", "p", "l", "e",
             ".", "c", "o", "m">>
BodyText == <<"n", "o", "t", " ", "a", " ", "u", "r", "l">>
BodyNoHost == S_http
\* a host that ends in a number and is no IPv4 address
BodyBadNumber == S_http \o <<"0", "9">>
\* a host beyond ASCII, written with percent escapes: the IDNA tables
\* decide whether it parses
BodyIdn == S_https \o <<"%", "c", "3", "%", "a", "9">>

\* the bodies of submissions: an http URL, an https URL whose host is beyond
\* ASCII, and bodies that are refused
Bodies == {UrlA, BodyIdn, BodyFtp, BodyText, BodyNoHost, BodyBadNumber}

SecretToken == <<"k">>

\* `Secret ${env.SECRET}`
SecretHeader(token) == <<"S", "e", "c", "r", "e", "t", " ">> \o token

GoodAuth == SecretHeader(SecretToken)
BadAuth == SecretHeader(<<"x">>)

\* the values of env.SECRET: not configured, or a token
Secrets == {Null, SecretToken}

\* request.url from the end of its origin on.  The origin plays no part in
\* `request.url.endsWith("/stats")`: the path starts with the only "/" a
\* suffix "/stats" can start with.
RootUrl == <<"/">>
StatsUrls == {S_stats, <<"/", "a">> \o S_stats}
DrawUrls == {RootUrl, S_stats \o <<"/", "a">>}

\* every kind of request: each body, with and without the right header
Requests ==
    {[method |-> "POST", url |-> RootUrl, auth |-> a, body |-> b] :
        a \in {GoodAuth, BadAuth}, b \in Bodies}
    \cup {[method |-> "GET", url |-> u, auth |-> Null, body |-> <<>>] :
        u \in DrawUrls}
    \cup {[method |-> "GET", url |-> u, auth |-> a, body |-> <<>>] :
        u \in StatsUrls, a \in {GoodAuth, BadAuth, Null}}
    \cup {[method |-> "DELETE", url |-> RootUrl, auth |-> Null, body |-> <<>>]}

\* the requests that reach the store: submissions of two URLs and a draw
StoreRequests ==
    {[method |-> "POST", url |-> RootUrl, auth |-> GoodAuth, body |-> b] :
        b \in {UrlA, UrlB}}
    \cup {[method |-> "GET", url |-> RootUrl, auth |-> Null, body |-> <<>>]}

NoRequest == [method |-> "", url |-> <<>>, auth |-> Null, body |-> <<>>]

\* a handler's locals before it assigns them; loaded names the counters read
NoLocals == [loaded |-> {}, urlCount |-> 0, urlPrefix |-> 0, url |-> <<>>,
             urlKey |-> <<>>, target |-> 0, pick |-> NoKey]

NoCounter == [urlCount |-> 0, urlPrefix |-> 0]

NoResponse == [status |-> 0, body |-> Null, fault |-> "none"]

\* status(n): new Response(null, { status })
Status(n) == [status |-> n, body |-> Null, fault |-> "none"]

\* new Response(body): status 200
Ok(body) == [status |-> 200, body |-> body, fault |-> "none"]

\* an exception that leaves fetch: the platform answers with an error page
Thrown(what) == [status |-> 500, body |-> Null, fault |-> what]

\* the counter states a behaviour starts from: <<urlCount, urlPrefix>> as
\* left by that many submissions made one at a time
SeedCounters == {<<0, 0>>, <<998, 0>>, <<999, 0>>}

\* the namespace after c + 1000 * p submissions made one at a time: urlCount
\* is written by the first submission, urlPrefix by the first rollover
SeedStore(c, p) ==
    [k \in (IF c + p > 0 THEN {S_urlCount} ELSE {})
           \cup (IF p > 0 THEN {S_urlPrefix} ELSE {}) |->
        IF k = S_urlCount THEN NumToStr(c) ELSE NumToStr(p)]

SeedOld(c, p) == [s \in 0..p |-> IF s < p THEN ShardCap ELSE c]

\* ------------------------------------------------------------------- state

VARIABLES
    secret,      \* env.SECRET
    kv,          \* env.KV: the keys written in this behaviour and the counters
    old,         \* env.KV: number of earlier URL entries per shard
    clock,       \* new Date().getTime()
    pc,          \* where each handler is
    req,         \* the request each handler serves
    loc,         \* the locals of each handler
    resp,        \* the response (or fault) each handler ended with
    log,         \* the store operations each handler has completed
    interfered,  \* the counter keys other handlers wrote during this request
    atFetch,     \* the stored counter when this request arrived
    served,      \* requests started
    calc         \* scratch of the sampler's pure functions (SpecSampler)

vars == <<secret, kv, old, clock, pc, req, loc, resp, log, interfered, atFetch,
          served, calc>>

NoCalc == [stage |-> "none", urlCount |-> 0, urlPrefix |-> 0, max |-> 0,
           threw |-> FALSE, out |-> 0, shard |-> 0, tally |-> <<>>]

Init ==
    /\ secret = SecretToken
    /\ \E seed \in SeedCounters :
          /\ kv = SeedStore(seed[1], seed[2])
          /\ old = SeedOld(seed[1], seed[2])
    /\ clock = ClockStart
    /\ pc = [p \in Handlers |-> "idle"]
    /\ req = [p \in Handlers |-> NoRequest]
    /\ loc = [p \in Handlers |-> NoLocals]
    /\ resp = [p \in Handlers |-> NoResponse]
    /\ log = [p \in Handlers |-> <<>>]
    /\ interfered = [p \in Handlers |-> {}]
    /\ atFetch = [p \in Handlers |-> NoCounter]
    /\ served = 0
    /\ calc = NoCalc

\* as Init, with and without a configured secret
InitGate ==
    /\ secret \in Secrets
    /\ \E seed \in SeedCounters :
          /\ kv = SeedStore(seed[1], seed[2])
          /\ old = SeedOld(seed[1], seed[2])
    /\ clock = ClockStart
    /\ pc = [p \in Handlers |-> "idle"]
    /\ req = [p \in Handlers |-> NoRequest]
    /\ loc = [p \in Handlers |-> NoLocals]
    /\ resp = [p \in Handlers |-> NoResponse]
    /\ log = [p \in Handlers |-> <<>>]
    /\ interfered = [p \in Handlers |-> {}]
    /\ atFetch = [p \in Handlers |-> NoCounter]
    /\ served = 0
    /\ calc = NoCalc

\* the request ends with response r
Finish(p, r) ==
    /\ pc' = [pc EXCEPT ![p] = "done"]
    /\ resp' = [resp EXCEPT ![p] = r]

Logged(p, op, key) == log' = [log EXCEPT ![p] = Append(@, <<op, key>>)]

\* a write of a counter key by p counts against every other request that
\* has arrived
Interferes(p, name) ==
    interfered' = [q \in Handlers |->
        IF q # p /\ pc[q] # "idle" THEN interfered[q] \cup {name} ELSE interfered[q]]

\* a check of the header's scheme word only
Unauthorized_SchemeOnly(sec, auth) ==
    sec # Null /\ sec # <<>> /\ ~StartsWith(auth, <<"S", "e", "c", "r", "e", "t", " ">>)

\* env.SECRET && request.headers.get("Authorization") !== `Secret ${env.SECRET}`
Unauthorized(sec, auth) == sec # Null /\ sec # <<>> /\ auth # SecretHeader(sec)

\* where fetch sends a request, up to the handler's first await
Route(sec, r) ==
    IF r.method = "POST" THEN
        IF Unauthorized(sec, r.auth) THEN "401" ELSE "c_load"
    ELSE IF r.method = "GET" THEN
        IF EndsWith(r.url, S_stats) THEN
            IF Unauthorized(sec, r.auth) THEN "401" ELSE "s_load"
        ELSE "g_load"
    ELSE "405"

\* fetch: method dispatch and the handler's authorization check
Dispatch(p, r) ==
    /\ served' = served + 1
    /\ req' = [req EXCEPT ![p] = r]
    /\ loc' = [loc EXCEPT ![p] = NoLocals]
    /\ log' = [log EXCEPT ![p] = <<>>]
    /\ interfered' = [interfered EXCEPT ![p] = {}]
    /\ atFetch' = [atFetch EXCEPT ![p] =
                      [urlCount |-> GetUrlCount(kv), urlPrefix |-> GetUrlPrefix(kv)]]
    /\ LET to == Route(secret, r) IN
          IF to = "401" THEN Finish(p, Status(401))
          ELSE IF to = "405" THEN Finish(p, Status(405))
          ELSE /\ pc' = [pc EXCEPT ![p] = to]
               /\ resp' = [resp EXCEPT ![p] = NoResponse]
    /\ UNCHANGED <<secret, kv, old, clock, calc>>

\* a request arrives at a handler that is serving none
Fetch(p, r) ==
    /\ pc[p] \in {"idle", "done"}
    /\ served < MaxRequests
    /\ Dispatch(p, r)

\* a request arrives at a handler that has served none yet
FetchOnce(p, r) ==
    /\ pc[p] = "idle"
    /\ Dispatch(p, r)

LoadPcs == {"c_load", "s_load", "g_load"}

\* the continuation of `await getUrlCountAndPrefix(env)` in each handler
AfterLoad(at) ==
    IF at = "c_load" THEN "c_body" ELSE IF at = "s_load" THEN "s_reply" ELSE "g_draw"

\* getUrlCount, one branch of the Promise.all
ReadUrlCount(p) ==
    /\ pc[p] \in LoadPcs
    /\ "urlCount" \notin loc[p].loaded
    /\ loc' = [loc EXCEPT ![p].urlCount = GetUrlCount(kv),
                          ![p].loaded = @ \cup {"urlCount"}]
    /\ Logged(p, "get", S_urlCount)
    /\ pc' = [pc EXCEPT ![p] =
                IF "urlPrefix" \in loc[p].loaded THEN AfterLoad(@) ELSE @]
    /\ UNCHANGED <<secret, kv, old, clock, req, resp, interfered, atFetch, served, calc>>

\* getUrlPrefix, the other branch
ReadUrlPrefix(p) ==
    /\ pc[p] \in LoadPcs
    /\ "urlPrefix" \notin loc[p].loaded
    /\ loc' = [loc EXCEPT ![p].urlPrefix = GetUrlPrefix(kv),
                          ![p].loaded = @ \cup {"urlPrefix"}]
    /\ Logged(p, "get", S_urlPrefix)
    /\ pc' = [pc EXCEPT ![p] =
                IF "urlCount" \in loc[p].loaded THEN AfterLoad(@) ELSE @]
    /\ UNCHANGED <<secret, kv, old, clock, req, resp, interfered, atFetch, served, calc>>

\* handleCreate, lines 31-43: read the body, validate it, name the entry
CreateValidate(p) ==
    /\ pc[p] = "c_body"
    /\ LET url == req[p].body IN
          IF ~StartsWith(url, S_http) /\ ~StartsWith(url, S_https)
          THEN Finish(p, Status(400)) /\ UNCHANGED loc
          ELSE \E returned \in UrlOutcomes(url) :
               IF ~returned
               THEN Finish(p, Status(400)) /\ UNCHANGED loc
               ELSE /\ loc' = [loc EXCEPT ![p].url = url,
                                          ![p].urlKey = UrlKey(loc[p].urlPrefix, clock)]
                    /\ pc' = [pc EXCEPT ![p] = "c_putUrl"]
                    /\ UNCHANGED resp
    /\ UNCHANGED <<secret, kv, old, clock, req, log, interfered, atFetch, served, calc>>

\* await env.KV.put(urlKey, url)
PutUrl(p) ==
    /\ pc[p] = "c_putUrl"
    /\ kv' = KVPut(kv, loc[p].urlKey, loc[p].url)
    /\ Logged(p, "put", loc[p].urlKey)
    /\ pc' = [pc EXCEPT ![p] = "c_putKey"]
    /\ UNCHANGED <<secret, old, clock, req, loc, resp, interfered, atFetch, served, calc>>

\* await env.KV.put(`urlKey.${encodeURIComponent(url)}`, urlKey)
PutUrlKey(p) ==
    /\ pc[p] = "c_putKey"
    /\ kv' = KVPut(kv, ReverseKey(loc[p].url), loc[p].urlKey)
    /\ Logged(p, "put", ReverseKey(loc[p].url))
    /\ pc' = [pc EXCEPT ![p] = "c_count"]
    /\ UNCHANGED <<secret, old, clock, req, loc, resp, interfered, atFetch, served, calc>>

\* `++urlCount`
Incremented(urlCount) == IF urlCount = NaN THEN NaN ELSE urlCount + 1

\* the capacity test one short: the group closes at its 999th entry
Rolls_Early(urlCount) == Incremented(urlCount) >= ShardCap - 1

\* `urlCount++ === 1000`: the test sees the value before the increment
Rolls_PostIncrement(urlCount) == urlCount = ShardCap

\* a capacity test that never succeeds
Rolls_Never(urlCount) == FALSE

\* `++urlCount === 1000`
Rolls(urlCount) == Incremented(urlCount) = ShardCap

\* a rollover that leaves the prefix where it was
NextPrefix_Same(urlPrefix) == urlPrefix

\* `urlPrefix + 1`, the value a rollover stores
NextPrefix(urlPrefix) == IF urlPrefix = NaN THEN NaN ELSE urlPrefix + 1

\* the rollover's two puts in the other order: the urlCount reset first, the
\* urlPrefix write second
PutCounter_ResetFirst(p) ==
    /\ pc[p] = "c_count"
    /\ loc' = [loc EXCEPT ![p].urlCount = Incremented(@)]
    /\ IF Rolls(loc[p].urlCount)
       THEN /\ kv' = KVPut(KVPut(kv, S_urlCount, S_zero),
                           S_urlPrefix, NumToStr(NextPrefix(loc[p].urlPrefix)))
            /\ log' = [log EXCEPT ![p] =
                          @ \o << <<"put", S_urlCount>>, <<"put", S_urlPrefix>> >>]
            /\ interfered' = [q \in Handlers |->
                  IF q # p /\ pc[q] # "idle"
                  THEN interfered[q] \cup {"urlCount", "urlPrefix"}
                  ELSE interfered[q]]
            /\ Finish(p, Status(201))
       ELSE /\ kv' = KVPut(kv, S_urlCount, NumToStr(Incremented(loc[p].urlCount)))
            /\ Logged(p, "put", S_urlCount)
            /\ Interferes(p, "urlCount")
            /\ Finish(p, Status(201))
    /\ UNCHANGED <<secret, old, clock, req, atFetch, served, calc>>

\* handleCreate, lines 54-59: ++urlCount, then the first counter write
PutCounter(p) ==
    /\ pc[p] = "c_count"
    /\ loc' = [loc EXCEPT ![p].urlCount = Incremented(@)]
    /\ IF Rolls(loc[p].urlCount)
       THEN /\ kv' = KVPut(kv, S_urlPrefix, NumToStr(NextPrefix(loc[p].urlPrefix)))
            /\ Logged(p, "put", S_urlPrefix)
            /\ Interferes(p, "urlPrefix")
            /\ pc' = [pc EXCEPT ![p] = "c_reset"]
            /\ UNCHANGED resp
       ELSE /\ kv' = KVPut(kv, S_urlCount, NumToStr(Incremented(loc[p].urlCount)))
            /\ Logged(p, "put", S_urlCount)
            /\ Interferes(p, "urlCount")
            /\ Finish(p, Status(201))
    /\ UNCHANGED <<secret, old, clock, req, atFetch, served, calc>>

\* await env.KV.put("urlCount", "0") after a rollover
ResetCount(p) ==
    /\ pc[p] = "c_reset"
    /\ kv' = KVPut(kv, S_urlCount, S_zero)
    /\ Logged(p, "put", S_urlCount)
    /\ Finish(p, Status(201))
    /\ Interferes(p, "urlCount")
    /\ UNCHANGED <<secret, old, clock, req, loc, atFetch, served, calc>>

\* the groups lines 84-92 can arrive at: one for each value rand can return
DrawnPrefixes(urlCount, urlPrefix) ==
    {TargetUrlPrefix(estimatedTargetUrl) :
        estimatedTargetUrl \in Rand(EstimatedTotalUrlCount(urlCount, urlPrefix))}

\* results.keys[rand(results.keys.length)], for each value rand can return
DrawnKeys(results) == {KeyAt(results, i) : i \in Rand(KeysLength(results))}

\* handleGet, lines 84-92: estimate the total, draw a target, take its group
GetDraw(p) ==
    /\ pc[p] = "g_draw"
    /\ \E targetUrlPrefix \in DrawnPrefixes(loc[p].urlCount, loc[p].urlPrefix) :
          loc' = [loc EXCEPT ![p].target = targetUrlPrefix]
    /\ pc' = [pc EXCEPT ![p] = "g_list"]
    /\ UNCHANGED <<secret, kv, old, clock, req, resp, log, interfered, atFetch, served, calc>>

\* handleGet, lines 95-99: list the group, then results.keys[rand(length)].name,
\* which throws a TypeError when that element is undefined
GetList(p) ==
    /\ pc[p] = "g_list"
    /\ Logged(p, "list", ListPrefix(loc[p].target))
    /\ LET results == KVList(kv, old, ListPrefix(loc[p].target)) IN
       \E drawn \in DrawnKeys(results) :
          IF drawn = NoKey
          THEN Finish(p, Thrown("TypeError")) /\ UNCHANGED loc
          ELSE /\ loc' = [loc EXCEPT ![p].pick = drawn]
               /\ pc' = [pc EXCEPT ![p] = "g_get"]
               /\ UNCHANGED resp
    /\ UNCHANGED <<secret, kv, old, clock, req, interfered, atFetch, served, calc>>

\* a fetch that also puts the drawn entry back under its key
GetFetch_Touch(p) ==
    /\ pc[p] = "g_get"
    /\ kv' = KVPut(kv, loc[p].pick.key, KVGetEntry(kv, loc[p].pick))
    /\ log' = [log EXCEPT ![p] =
                  @ \o << <<"get", loc[p].pick.key>>, <<"put", loc[p].pick.key>> >>]
    /\ Finish(p, Ok(KVGetEntry(kv, loc[p].pick)))
    /\ UNCHANGED <<secret, old, clock, req, loc, interfered, atFetch, served, calc>>

\* handleGet, lines 98-105: fetch the drawn entry and answer with it
GetFetch(p) ==
    /\ pc[p] = "g_get"
    /\ Logged(p, "get", loc[p].pick.key)
    /\ Finish(p, Ok(KVGetEntry(kv, loc[p].pick)))
    /\ UNCHANGED <<secret, kv, old, clock, req, loc, interfered, atFetch, served, calc>>

\* JSON.stringify of a number: NaN is written as null
JsonNumber(n) == IF n = NaN THEN <<"n", "u", "l", "l">> ELSE NumToStr(n)

\* JSON.stringify({ urlCount, urlPrefix }), without its blanks and quotes
StatsJson(urlCount, urlPrefix) ==
    S_urlCount \o <<":">> \o JsonNumber(urlCount) \o <<",">>
        \o S_urlPrefix \o <<":">> \o JsonNumber(urlPrefix)

\* handleStats, lines 116-122
StatsReply(p) ==
    /\ pc[p] = "s_reply"
    /\ Finish(p, Ok(StatsJson(loc[p].urlCount, loc[p].urlPrefix)))
    /\ UNCHANGED <<secret, kv, old, clock, req, loc, log, interfered, atFetch, served, calc>>

\* the positions where a handler awaits a store operation
StorePcs == LoadPcs \cup {"c_putUrl", "c_putKey", "c_count", "c_reset", "g_list", "g_get"}

\* a store operation rejects: the exception leaves the handler, nothing is
\* retried or undone
StoreFail(p) ==
    /\ pc[p] \in StorePcs
    /\ Finish(p, Thrown("StoreError"))
    /\ UNCHANGED <<secret, kv, old, clock, req, loc, log, interfered, atFetch, served, calc>>

\* a millisecond passes
Tick ==
    /\ clock < ClockStart + MaxTicks
    /\ clock' = clock + 1
    /\ UNCHANGED <<secret, kv, old, pc, req, loc, resp, log, interfered, atFetch, served, calc>>

\* requests that reach the store, any number of them in flight together,
\* every store operation succeeding
Next ==
    \/ \E p \in Procs, r \in StoreRequests : Fetch(p, r)
    \/ \E p \in Procs : ReadUrlCount(p)
    \/ \E p \in Procs : ReadUrlPrefix(p)
    \/ \E p \in Procs : CreateValidate(p)
    \/ \E p \in Procs : PutUrl(p)
    \/ \E p \in Procs : PutUrlKey(p)
    \/ \E p \in Procs : PutCounter(p)
    \/ \E p \in Procs : ResetCount(p)
    \/ \E p \in Procs : GetDraw(p)
    \/ \E p \in Procs : GetList(p)
    \/ \E p \in Procs : GetFetch(p)
    \/ Tick

Spec == Init /\ [][Next]_vars

\* one handler serving requests of every kind, one after another; store
\* operations may fail
NextGate ==
    \/ \E r \in Requests : Fetch(1, r)
    \/ ReadUrlCount(1)
    \/ ReadUrlPrefix(1)
    \/ CreateValidate(1)
    \/ PutUrl(1)
    \/ PutUrlKey(1)
    \/ PutCounter(1)
    \/ ResetCount(1)
    \/ GetDraw(1)
    \/ GetList(1)
    \/ GetFetch(1)
    \/ StatsReply(1)
    \/ StoreFail(1)
    \/ Tick

SpecGate == InitGate /\ [][NextGate]_vars

\* ------------------------------------------- the sampler's pure functions
\* SpecSampler applies rand, the estimate and the group selection of handleGet
\* to drawn counter states and bounds.

\* urlCount values of the drawn counter states (the stored urlCount is
\* always below the group size)
SamplerCounts == {0, 1, 20, 500, ShardCap - 1}

\* the bounds rand is called with directly
RandBounds == (0 - MaxNegBound)..2

\* how many values of rand(total) select each group 0..urlPrefix
Tally(urlCount, urlPrefix) ==
    [s \in 0..urlPrefix |->
        Cardinality({t \in Rand(EstimatedTotalUrlCount(urlCount, urlPrefix)) :
                        TargetUrlPrefix(t) = s})]

\* line 84 on a counter state
SamplerEstimate ==
    /\ calc.stage = "none"
    /\ \E c \in SamplerCounts, p \in 0..MaxSamplerPrefix :
          calc' = [NoCalc EXCEPT !.stage = "estimated", !.urlCount = c,
                                 !.urlPrefix = p,
                                 !.max = EstimatedTotalUrlCount(c, p),
                                 !.tally = Tally(c, p)]
    /\ UNCHANGED <<secret, kv, old, clock, pc, req, loc, resp, log, interfered, atFetch, served>>

\* lines 89-92 on that estimate
SamplerDraw ==
    /\ calc.stage = "estimated"
    /\ \E o \in RandOutcomes(calc.max) :
          calc' = [calc EXCEPT !.stage = "drawn", !.threw = o.threw,
                               !.out = o.value,
                               !.shard = TargetUrlPrefix(o.value)]
    /\ UNCHANGED <<secret, kv, old, clock, pc, req, loc, resp, log, interfered, atFetch, served>>

\* rand(max) on a bound
SamplerRand ==
    /\ calc.stage = "none"
    /\ \E m \in RandBounds : \E o \in RandOutcomes(m) :
          calc' = [NoCalc EXCEPT !.stage = "rand", !.max = m,
                                 !.threw = o.threw, !.out = o.value]
    /\ UNCHANGED <<secret, kv, old, clock, pc, req, loc, resp, log, interfered, atFetch, served>>

NextSampler == SamplerEstimate \/ SamplerDraw \/ SamplerRand

SpecSampler == Init /\ [][NextSampler]_vars

\* ------------------------------------------------------------------ claims

\* the submission of p has answered 201
Submitted(p) == pc[p] = "done" /\ resp[p].status = 201

\* no other handler wrote a counter key since the request of p arrived
Alone(p) == interfered[p] = {}

StoredCount == GetUrlCount(kv)
StoredPrefix == GetUrlPrefix(kv)

\* the URL entry keys p has put
EntryPuts(p) ==
    {log[p][i][2] : i \in {j \in 1..Len(log[p]) :
        log[p][j][1] = "put" /\ IsUrlEntryKey(log[p][j][2])}}

\* C1: a submission that arrives while the stored counter is (k, p) with
\* k < 999, and that no other submission's counter write interleaves with,
\* leaves the stored counter at exactly (k + 1, p) when it has answered 201.
C1_CounterAdvances ==
    \A p \in Procs :
        (Submitted(p) /\ Alone(p) /\ atFetch[p].urlCount < 999) =>
            /\ StoredCount = atFetch[p].urlCount + 1
            /\ StoredPrefix = atFetch[p].urlPrefix

\* C1: a lone submission on (998, 0) has left (999, 0)
C1_Witness ==
    \E p \in Procs :
        /\ Submitted(p) /\ Alone(p)
        /\ atFetch[p].urlCount = 998
        /\ StoredCount = 999 /\ StoredPrefix = 0

\* C2: the 1000th submission into a shard rolls the counter over: arriving
\* on (999, p) and running without interleaved counter writes, it leaves the
\* stored counter at (0, p + 1), and the URL entry it put is in shard p.
C2_Rollover ==
    \A p \in Procs :
        (Submitted(p) /\ Alone(p) /\ atFetch[p].urlCount = 999) =>
            /\ StoredCount = 0
            /\ StoredPrefix = atFetch[p].urlPrefix + 1
            /\ EntryPuts(p) # {}
            /\ \A k \in EntryPuts(p) : ShardOfKey(k) = atFetch[p].urlPrefix

\* C2: a lone submission on (999, 0) has left (0, 1) and an entry in shard 0
C2_Witness ==
    \E p \in Procs :
        /\ Submitted(p) /\ Alone(p)
        /\ atFetch[p] = [urlCount |-> 999, urlPrefix |-> 0]
        /\ StoredCount = 0 /\ StoredPrefix = 1
        /\ \E k \in EntryPuts(p) : ShardOfKey(k) = 0 /\ k \in DOMAIN kv

\* C3: in every reachable state, under any interleaving of the submissions'
\* store reads and writes, the stored urlCount is between 0 and 1000.
C3_CountInRange == StoredCount >= 0 /\ StoredCount <= 1000

\* C3: two submissions raced through a rollover: both have answered 201, both
\* saw the other's counter writes, and the count is at its reset value
C3_Witness ==
    /\ \A p \in Procs : Submitted(p) /\ interfered[p] # {}
    /\ \E p \in Procs : atFetch[p].urlCount = 999
    /\ StoredCount = 0 /\ StoredPrefix = 1

\* the store holds no URL entry and no counter key
EmptyStore == DOMAIN kv = {} /\ \A s \in DOMAIN old : old[s] = 0

IsDraw(p) == req[p].method = "GET" /\ ~EndsWith(req[p].url, S_stats)

\* C4: a GET / against a store with no URL entries and no counter keys ends
\* with an empty result; it never faults on an index into the empty listing.
C4_EmptyDrawNoFault ==
    \A p \in Procs :
        (IsDraw(p) /\ pc[p] = "done" /\ EmptyStore) => resp[p].fault = "none"

\* C5: a URL submitted successfully stays retrievable: whatever else is
\* submitted, some URL entry of the shard it was written to holds exactly
\* the submitted string.
C5_Retrievable ==
    \A p \in Procs :
        Submitted(p) =>
            \E k \in DOMAIN kv :
                /\ IsUrlEntryKey(k)
                /\ ShardOfKey(k) = ShardOfKey(loc[p].urlKey)
                /\ kv[k] = loc[p].url

\* C6: rand(max) fails fast for every bound max <= 0: it returns no value.
C6_RandFailsFast ==
    (calc.stage = "rand" /\ calc.max <= 0) => calc.threw

\* C7: group selection is proportional to the assumed group sizes: the
\* estimate is urlPrefix * 1000 + urlCount; every target drawn below a
\* positive estimate selects a group in 0..urlPrefix; exactly 1000 targets
\* select each closed group and exactly urlCount targets the current one.
C7_Proportional ==
    /\ calc.stage \in {"estimated", "drawn"} =>
          /\ calc.max = calc.urlPrefix * 1000 + calc.urlCount
          /\ (calc.urlCount = 20 /\ calc.urlPrefix = 0) => calc.max = 20
          /\ (calc.urlCount = 500 /\ calc.urlPrefix = 2) => calc.max = 2500
    /\ (calc.stage = "estimated" /\ calc.max > 0) =>
          /\ DOMAIN calc.tally = 0..calc.urlPrefix
          /\ \A s \in 0..(calc.urlPrefix - 1) : calc.tally[s] = 1000
          /\ calc.tally[calc.urlPrefix] = calc.urlCount
    /\ (calc.stage = "drawn" /\ calc.max > 0) =>
          /\ calc.out \in 0..(calc.max - 1)
          /\ calc.shard \in 0..calc.urlPrefix
          /\ calc.shard * 1000 <= calc.out
          /\ calc.out < (calc.shard + 1) * 1000
          /\ calc.urlCount = 0 => calc.shard # calc.urlPrefix

\* C7: with two closed groups and 500 entries in the current one, the last
\* target, 2499, selects the current group
C7_Witness ==
    /\ calc.stage = "drawn"
    /\ calc.urlCount = 500 /\ calc.urlPrefix = 2
    /\ calc.out = 2499 /\ calc.shard = 2

\* the bodies that are no http(s) URL
InvalidBodies == {BodyFtp, BodyText, BodyNoHost, BodyBadNumber}

\* p serves an authorized submission whose body is no http(s) URL
InvalidSubmission(p) ==
    /\ req[p].method = "POST"
    /\ req[p].body \in InvalidBodies
    /\ (secret = Null \/ req[p].auth = GoodAuth)

\* C8: a submission whose body does not start with http:// or https://, or
\* does not parse as a URL, is answered 400 and puts nothing: no step of its
\* handler changes the URL entries, the reverse-lookup entries or the counter.
C8_RejectedWritesNothing ==
    /\ [](\A p \in Procs :
            InvalidSubmission(p) =>
                /\ \A i \in 1..Len(log[p]) : log[p][i][1] # "put"
                /\ (pc[p] = "done" /\ resp[p].fault = "none") =>
                        resp[p].status = 400)
    /\ [][(\E p \in Procs : InvalidSubmission(p) /\ pc[p] # "done") =>
            (kv' = kv /\ old' = old)]_vars

\* C8: "http://" passed the scheme test, failed to parse and was answered 400
\* after both counter reads
C8_Witness ==
    \E p \in Procs :
        /\ InvalidSubmission(p) /\ req[p].body = BodyNoHost
        /\ pc[p] = "done" /\ resp[p].status = 400
        /\ Len(log[p]) = 2

\* p serves a POST or a GET /stats with a header other than the configured one
Mismatch(p) ==
    /\ secret = SecretToken
    /\ req[p].auth # GoodAuth
    /\ \/ req[p].method = "POST"
       \/ req[p].method = "GET" /\ EndsWith(req[p].url, S_stats)

\* C9: with a secret configured and an Authorization header other than
\* 'Secret <secret>', POST / and GET /stats answer 401 before any store
\* access: the request issues no get, list or put.
C9_UnauthorizedNoAccess ==
    \A p \in Procs :
        Mismatch(p) =>
            /\ pc[p] = "done"
            /\ resp[p].status = 401
            /\ log[p] = <<>>

\* C9: a submission of a valid URL with a wrong secret was answered 401
C9_Witness ==
    \E p \in Procs :
        /\ Mismatch(p) /\ req[p].method = "POST" /\ req[p].body = UrlA
        /\ req[p].auth = BadAuth
        /\ resp[p].status = 401

\* the step puts the URL entry of p
PutsEntry(p) == pc[p] = "c_putUrl" /\ pc'[p] = "c_putKey"

\* C10 as stated: under any interleaving, every URL entry is put into the
\* shard of the urlPrefix stored at that moment.
C10_OnlyCurrentShard ==
    [][\A p \in Procs :
          PutsEntry(p) => ShardOfKey(loc[p].urlKey) = StoredPrefix]_vars

\* C10 amended: a submission puts its URL entry into the shard of the stored
\* urlPrefix whenever no other submission has written urlPrefix since it
\* arrived.
C10_CurrentShardWhenAlone ==
    [][\A p \in Procs :
          (PutsEntry(p) /\ "urlPrefix" \notin interfered[p]) =>
              ShardOfKey(loc[p].urlKey) = StoredPrefix]_vars

\* C10: after a rollover to shard 1, a later submission has put its entry
\* into shard 1
C10_Witness ==
    \E p \in Procs :
        /\ pc[p] = "c_putKey" /\ "urlPrefix" \notin interfered[p]
        /\ StoredPrefix = 1
        /\ loc[p].urlKey \in DOMAIN kv
        /\ ShardOfKey(loc[p].urlKey) = 1

\* ------------------------------------------------------------ claims 11-18

\* the counter pair a submission that read (urlCount, urlPrefix) stores once
\* all of its counter writes are done
Advanced(c) ==
    IF Rolls(c.urlCount)
    THEN [urlCount |-> 0, urlPrefix |-> c.urlPrefix + 1]
    ELSE [urlCount |-> Incremented(c.urlCount), urlPrefix |-> c.urlPrefix]

StoredPair == [urlCount |-> StoredCount, urlPrefix |-> StoredPrefix]

\* the submission of p failed on a store operation after its first put
FailedBetweenWrites(p) ==
    /\ req[p].method = "POST"
    /\ pc[p] = "done"
    /\ resp[p].fault = "StoreError"
    /\ EntryPuts(p) # {}

\* C11: a submission that fails between two of its store writes leaves the
\* stored (urlCount, urlPrefix) pair either as it read it or fully advanced,
\* never the new urlPrefix with the old urlCount.
C11_NoMixedCounter ==
    \A p \in Procs :
        FailedBetweenWrites(p) =>
            StoredPair \in {atFetch[p], Advanced(atFetch[p])}

\* what a put key is: a counter key, a reverse-lookup entry or a URL entry
KeyKind(k) ==
    IF k = S_urlCount THEN "urlCount"
    ELSE IF k = S_urlPrefix THEN "urlPrefix"
    ELSE IF StartsWith(k, S_urlKeyDot) THEN "reverse"
    ELSE IF IsUrlEntryKey(k) THEN "entry"
    ELSE "other"

IsPut(e) == e[1] = "put"

\* the kinds of the keys p has put for its current request, in order
PutKinds(p) ==
    LET puts == SelectSeq(log[p], IsPut)
    IN  [i \in 1..Len(puts) |-> KeyKind(puts[i][2])]

IsPrefixSeq(a, b) == Len(a) <= Len(b) /\ a = SubSeq(b, 1, Len(a))

PlainOrder == <<"entry", "reverse", "urlCount">>
RolloverOrder == <<"entry", "reverse", "urlPrefix", "urlCount">>

\* C12: the puts of one submission happen in the order URL entry,
\* reverse-lookup entry, counter write(s); no counter key is put before both
\* entries, and on rollover urlPrefix is put before the urlCount reset.
C12_WriteOrder ==
    \A p \in Procs :
        req[p].method = "POST" =>
            /\ \/ IsPrefixSeq(PutKinds(p), PlainOrder)
               \/ IsPrefixSeq(PutKinds(p), RolloverOrder)
            /\ Submitted(p) => PutKinds(p) \in {PlainOrder, RolloverOrder}

\* C12: a submission has completed a rollover with all four puts
C12_Witness ==
    \E p \in Procs : Submitted(p) /\ PutKinds(p) = RolloverOrder

\* A namespace with a sparse closed shard: shards 0 and 2..9 closed with 1000
\* entries, shard 1 closed with a single entry, the current shard holding
\* urlCount entries.  Shard 1 is left like this by a rollover into it that is
\* followed by a second rollover one entry later: either the urlCount reset
\* of the first failed (store (999, 1), see C11), or a concurrent submission
\* read urlCount 999 between the first rollover's two puts.
SparseSeeds == {<<999, 10>>, <<3, 12>>}

SparseOld(c, p) ==
    [s \in 0..p |-> IF s = 1 THEN 1 ELSE IF s < p THEN ShardCap ELSE c]

InitSparse ==
    /\ secret = SecretToken
    /\ \E seed \in SparseSeeds :
          /\ kv = SeedStore(seed[1], seed[2])
          /\ old = SparseOld(seed[1], seed[2])
    /\ clock = ClockStart
    /\ pc = [p \in Handlers |-> "idle"]
    /\ req = [p \in Handlers |-> NoRequest]
    /\ loc = [p \in Handlers |-> NoLocals]
    /\ resp = [p \in Handlers |-> NoResponse]
    /\ log = [p \in Handlers |-> <<>>]
    /\ interfered = [p \in Handlers |-> {}]
    /\ atFetch = [p \in Handlers |-> NoCounter]
    /\ served = 0
    /\ calc = NoCalc

SpecSparse == InitSparse /\ [][Next]_vars

\* the keys of the listing handleGet issues for the shard p has drawn
Listing(p) == KVList(kv, old, ListPrefix(loc[p].target))

\* C13: every key the listing of handleGet returns for the drawn shard has
\* that shard's index, whatever shard indices exist (multi-digit ones too).
C13_ListingOnlyTargetShard ==
    \A p \in Procs :
        pc[p] = "g_list" =>
            \A i \in 1..Len(Listing(p)) :
                ShardOfKey(Listing(p)[i].key) = loc[p].target

\* the GET / of p arrived on a store that held URL entries, and a submission
\* wrote a counter key while it was served
RacedDraw(p) ==
    /\ IsDraw(p)
    /\ atFetch[p].urlCount + atFetch[p].urlPrefix > 0
    /\ interfered[p] # {}

\* C14: a GET / that runs concurrently with submissions and whose listing
\* comes back empty (it read the counter between a rollover's urlPrefix write
\* and the urlCount reset) answers with no content; it does not fault.
C14_RacedDrawNoFault ==
    \A p \in Procs :
        (RacedDraw(p) /\ pc[p] = "done") => resp[p].fault = "none"

\* requests served one at a time by a single handler, every store operation
\* succeeding
NextSeq ==
    \/ \E r \in StoreRequests : Fetch(1, r)
    \/ ReadUrlCount(1)
    \/ ReadUrlPrefix(1)
    \/ CreateValidate(1)
    \/ PutUrl(1)
    \/ PutUrlKey(1)
    \/ PutCounter(1)
    \/ ResetCount(1)
    \/ GetDraw(1)
    \/ GetList(1)
    \/ GetFetch(1)
    \/ Tick

SpecSeq == Init /\ [][NextSeq]_vars

\* no request is being served
Quiet == \A p \in Procs : pc[p] \in {"idle", "done"}

\* the number of URL entries of shard s
ShardSize(s) ==
    (IF s \in DOMAIN old THEN old[s] ELSE 0)
    + Cardinality({k \in DOMAIN kv : IsUrlEntryKey(k) /\ ShardOfKey(k) = s})

\* C15: when submissions run one at a time and all succeed, after every
\* submission each shard below urlPrefix holds exactly 1000 URL entries and
\* shard urlPrefix holds exactly urlCount entries (so the estimate equals the
\* number of entries and no shard exceeds the listing cap).
C15_ShardsExact ==
    Quiet =>
        \A s \in 0..(StoredPrefix + 1) :
            ShardSize(s) = IF s < StoredPrefix THEN ShardCap
                           ELSE IF s = StoredPrefix THEN StoredCount
                           ELSE 0

\* C16: after every completed submission of a URL u the reverse-lookup entry
\* of u exists and holds the key of a URL entry whose value is u, whatever
\* is submitted afterwards (u again, or other URLs).
C16_ReverseLookupSound ==
    Quiet =>
        /\ \A p \in Procs : Submitted(p) => ReverseKey(req[p].body) \in DOMAIN kv
        /\ \A u \in {UrlA, UrlB} :
              ReverseKey(u) \in DOMAIN kv =>
                  /\ KVGet(kv, ReverseKey(u)) \in DOMAIN kv
                  /\ KVGet(kv, KVGet(kv, ReverseKey(u))) = u

\* three submissions in flight together, one request per invocation
TrioRequests ==
    {[method |-> "POST", url |-> RootUrl, auth |-> GoodAuth, body |-> UrlA]}

NextTrio ==
    \/ \E p \in Handlers, r \in TrioRequests : FetchOnce(p, r)
    \/ \E p \in Handlers : ReadUrlCount(p)
    \/ \E p \in Handlers : ReadUrlPrefix(p)
    \/ \E p \in Handlers : CreateValidate(p)
    \/ \E p \in Handlers : PutUrl(p)
    \/ \E p \in Handlers : PutUrlKey(p)
    \/ \E p \in Handlers : PutCounter(p)
    \/ \E p \in Handlers : ResetCount(p)
    \/ Tick

SpecTrio == Init /\ [][NextTrio]_vars

\* the step is the urlPrefix put of p's rollover
PutsPrefix(p) == pc[p] = "c_count" /\ pc'[p] = "c_reset"

\* C17 as stated: under any interleaving of submissions the stored urlPrefix
\* never decreases; every put to urlPrefix stores a value at least the one
\* stored just before.
C17_PrefixNeverDecreases ==
    [][StoredPrefix' >= StoredPrefix]_vars

\* C17 amended: a put to urlPrefix stores the value the submission read plus
\* one; whenever no other submission has written urlPrefix since this one
\* arrived, that is the stored value plus one, so urlPrefix does not decrease.
C17_PrefixAdvancesWhenAlone ==
    [][\A p \in Handlers :
          PutsPrefix(p) =>
              /\ StoredPrefix' = loc[p].urlPrefix + 1
              /\ "urlPrefix" \notin interfered[p] =>
                    StoredPrefix' = StoredPrefix + 1]_vars

\* C17: a rollover no other urlPrefix write interleaved with has stored
\* urlPrefix 1 over 0 while two more submissions are in flight
C17_Witness ==
    \E p \in Handlers :
        /\ pc[p] = "c_reset"
        /\ "urlPrefix" \notin interfered[p]
        /\ atFetch[p].urlPrefix = 0
        /\ StoredPrefix = 1
        /\ \A q \in Handlers : pc[q] \notin {"idle", "done"}

\* the step is one of the request p is serving
StepOf(p) == pc'[p] # pc[p] \/ req'[p] # req[p] \/ loc'[p] # loc[p]

\* C18: GET / and GET /stats put no key, whether they succeed or not: every
\* step of such a request leaves the URL entries, the reverse-lookup
\* entries, urlCount and urlPrefix as they were.
C18_ReadsWriteNothing ==
    /\ [](\A p \in Procs :
            req[p].method = "GET" =>
                \A i \in 1..Len(log[p]) : log[p][i][1] # "put")
    /\ [][\A p \in Procs :
            (StepOf(p) /\ req'[p].method = "GET") =>
                (kv' = kv /\ old' = old)]_vars

\* C18: a GET / has answered with a stored URL, and the store holds entries
C18_Witness ==
    \E p \in Procs :
        /\ IsDraw(p) /\ pc[p] = "done" /\ resp[p].status = 200
        /\ resp[p].body \in {OldUrl, UrlA, UrlB}
        /\ \E i \in 1..Len(log[p]) : log[p][i][1] = "get"
        /\ ~EmptyStore

====
